---- MODULE Spec2Model ----
(***************************************************************************)
(* A model of the forwarding proxy: the URL codec (base64), the target     *)
(* resolver, the request forwarder, the content classifier, the HTML, CSS  *)
(* and JS rewriters and the response emitter, for both variants of         *)
(* proxyHandler (main.go: plain forwarding; the browse variant: rewriting).*)
(*                                                                         *)
(* Text is a sequence of one-character strings.  Inputs are drawn from     *)
(* printable ASCII without '#', '%', '@', '[' and without blanks inside    *)
(* URLs, so fragments, userinfo, IPv6 literals and percent-escaping of     *)
(* net/url never come into play.                                           *)
(***************************************************************************)
EXTENDS Integers, Sequences, FiniteSets, TLC

(***************************************************************************)
(* Characters and bytes                                                    *)
(***************************************************************************)

\* ASCII 32..126 in order; Printable[i] is the character with code 31 + i
\* (code 96 is spelled out: a string of the module cannot hold that character).
Printable == <<" ","!","\"","#","$","%","&","'","(",")","*","+",",","-",".","/","0","1","2","3","4","5","6","7","8","9",":",";","<","=",">","?","@","A","B","C","D","E","F","G","H","I","J","K","L","M","N","O","P","Q","R","S","T","U","V","W","X","Y","Z","[","\\","]","^","_">> \o <<"BACKQUOTE">> \o <<"a","b","c","d","e","f","g","h","i","j","k","l","m","n","o","p","q","r","s","t","u","v","w","x","y","z","{","|","}","~">>

\* A byte outside the printable range, as string(decodedBytes) may hold.
NonPrintable == "\\x"

Range(s) == {s[i] : i \in 1..Len(s)}

\* the position of c in the sequence s, which holds it once
PositionIn(s, c) == CHOOSE i \in 1..Len(s) : s[i] = c

Ord(c) == 31 + PositionIn(Printable, c)

Chr(b) == IF b \in 32..126 THEN Printable[b - 31] ELSE NonPrintable

\* []byte(s)
Bytes(s) == [i \in 1..Len(s) |-> Ord(s[i])]

\* string(b)
Text(b) == [i \in 1..Len(b) |-> Chr(b[i])]

Lower == <<"a","b","c","d","e","f","g","h","i","j","k","l","m","n","o","p","q","r","s","t","u","v","w","x","y","z">>

Upper == <<"A","B","C","D","E","F","G","H","I","J","K","L","M","N","O","P","Q","R","S","T","U","V","W","X","Y","Z">>

IsLetter(c) == c \in Range(Lower) \cup Range(Upper)

ToLowerChar(c) == IF c \in Range(Upper) THEN Lower[PositionIn(Upper, c)] ELSE c

\* strings.ToLower
ToLower(s) == [i \in 1..Len(s) |-> ToLowerChar(s[i])]

\* strings.HasPrefix
HasPrefix(s, p) == Len(s) >= Len(p) /\ SubSeq(s, 1, Len(p)) = p

\* s[i:] with a 1-based i
From(s, i) == SubSeq(s, i, Len(s))

\* strings.TrimPrefix
TrimPrefix(s, p) == IF HasPrefix(s, p) THEN From(s, Len(p) + 1) ELSE s

\* the least element of a set of positions, or 0 for the empty set
FirstOf(ps) == IF ps = {} THEN 0 ELSE CHOOSE i \in ps : \A j \in ps : i <= j

\* the greatest element of a set of positions, or 0 for the empty set
LastOf(ps) == IF ps = {} THEN 0 ELSE CHOOSE i \in ps : \A j \in ps : i >= j

\* strings.Index for a single character, 1-based; 0 when absent
IndexOf(s, c) == FirstOf({i \in 1..Len(s) : s[i] = c})

\* strings.LastIndex for a single character, 1-based; 0 when absent
LastIndexOf(s, c) == LastOf({i \in 1..Len(s) : s[i] = c})

\* whether the literal lit stands in t at position i
LitAt(t, i, lit) == i >= 1 /\ i + Len(lit) - 1 <= Len(t) /\ SubSeq(t, i, i + Len(lit) - 1) = lit

\* strings.Cut(s, c) at position at of the first c (0: there is none)
CutAt(s, at) == [before |-> IF at = 0 THEN s ELSE SubSeq(s, 1, at - 1), after |-> IF at = 0 THEN << >> ELSE From(s, at + 1), found |-> at # 0]

Cut(s, c) == CutAt(s, IndexOf(s, c))

(***************************************************************************)
(* URL codec: encoding/base64 with padding                                 *)
(***************************************************************************)

StdAlphabet == <<"A","B","C","D","E","F","G","H","I","J","K","L","M","N","O","P","Q","R","S","T","U","V","W","X","Y","Z","a","b","c","d","e","f","g","h","i","j","k","l","m","n","o","p","q","r","s","t","u","v","w","x","y","z","0","1","2","3","4","5","6","7","8","9","+","/">>

URLAlphabet == <<"A","B","C","D","E","F","G","H","I","J","K","L","M","N","O","P","Q","R","S","T","U","V","W","X","Y","Z","a","b","c","d","e","f","g","h","i","j","k","l","m","n","o","p","q","r","s","t","u","v","w","x","y","z","0","1","2","3","4","5","6","7","8","9","-","_">>

PadChar == "="

\* the quanta of the bytes b from position i on: three bytes make four
\* characters, a rest of one or two bytes is padded
RECURSIVE EncodeFrom(_, _, _)
EncodeFrom(alpha, b, i) ==
  IF Len(b) < i THEN << >>
  ELSE IF Len(b) = i THEN <<alpha[(b[i] \div 4) + 1], alpha[((b[i] % 4) * 16) + 1], PadChar, PadChar>>
  ELSE IF Len(b) = i + 1 THEN <<alpha[(b[i] \div 4) + 1], alpha[((b[i] % 4) * 16) + (b[i + 1] \div 16) + 1], alpha[((b[i + 1] % 16) * 4) + 1], PadChar>>
  ELSE <<alpha[(b[i] \div 4) + 1], alpha[((b[i] % 4) * 16) + (b[i + 1] \div 16) + 1], alpha[((b[i + 1] % 16) * 4) + (b[i + 2] \div 64) + 1], alpha[(b[i + 2] % 64) + 1]>> \o EncodeFrom(alpha, b, i + 3)

\* Encoding.EncodeToString
EncodeToString(alpha, s) == EncodeFrom(alpha, Bytes(s), 1)

\* the 6-bit value of c in alpha, or -1
Sextet(alpha, c) == IF c \in Range(alpha) THEN PositionIn(alpha, c) - 1 ELSE -1

\* the bytes of one quantum with the 6-bit values v; pad is the number of
\* padding characters that end it (only the last quantum may have any)
QuantumBytes(v, pad, last) ==
  IF pad = 0 /\ v[1] >= 0 /\ v[2] >= 0 /\ v[3] >= 0 /\ v[4] >= 0
    THEN [ok |-> TRUE, val |-> <<(v[1] * 4) + (v[2] \div 16), ((v[2] % 16) * 16) + (v[3] \div 4), ((v[3] % 4) * 64) + v[4]>>]
  ELSE IF pad = 1 /\ last /\ v[1] >= 0 /\ v[2] >= 0 /\ v[3] >= 0
    THEN [ok |-> TRUE, val |-> <<(v[1] * 4) + (v[2] \div 16), ((v[2] % 16) * 16) + (v[3] \div 4)>>]
  ELSE IF pad = 2 /\ last /\ v[1] >= 0 /\ v[2] >= 0
    THEN [ok |-> TRUE, val |-> <<(v[1] * 4) + (v[2] \div 16)>>]
  ELSE [ok |-> FALSE, val |-> << >>]

PadCount(q) == IF q[4] # PadChar THEN 0 ELSE IF q[3] # PadChar THEN 1 ELSE 2

DecodeQuantum(alpha, q, last) == QuantumBytes([j \in 1..4 |-> Sextet(alpha, q[j])], PadCount(q), last)

Joined(q, rest) == IF q.ok /\ rest.ok THEN [ok |-> TRUE, val |-> q.val \o rest.val] ELSE [ok |-> FALSE, val |-> << >>]

\* the input is read in quanta of four characters; input that ends inside a
\* quantum, a character outside the alphabet and misplaced padding are errors
RECURSIVE DecodeFrom(_, _, _)
DecodeFrom(alpha, s, i) ==
  IF Len(s) < i THEN [ok |-> TRUE, val |-> << >>]
  ELSE IF Len(s) < i + 3 THEN [ok |-> FALSE, val |-> << >>]
  ELSE Joined(DecodeQuantum(alpha, SubSeq(s, i, i + 3), Len(s) = i + 3), DecodeFrom(alpha, s, i + 4))

AsText(d) == [ok |-> d.ok, val |-> Text(d.val)]

\* Encoding.DecodeString, and string(decodedBytes): ok is err == nil
DecodeString(alpha, s) == AsText(DecodeFrom(alpha, s, 1))

(***************************************************************************)
(* net/url as the handler and the rewriters use it: url.Parse,             *)
(* URL.Parse (= Parse, then ResolveReference) and URL.String               *)
(***************************************************************************)

Digits == Range(<<"0","1","2","3","4","5","6","7","8","9">>)

NoURL == [err |-> TRUE, Scheme |-> << >>, Opaque |-> << >>, Host |-> << >>, Path |-> << >>, RawQuery |-> << >>, ForceQuery |-> FALSE]

\* getScheme: letters, then digits + - . after the first character, up to ':'
RECURSIVE GetSchemeAt(_, _)
GetSchemeAt(raw, i) ==
  IF i > Len(raw) THEN [err |-> FALSE, scheme |-> << >>, rest |-> raw]
  ELSE IF IsLetter(raw[i]) THEN GetSchemeAt(raw, i + 1)
  ELSE IF raw[i] \in Digits \cup {"+", "-", "."} THEN
         IF i = 1 THEN [err |-> FALSE, scheme |-> << >>, rest |-> raw] ELSE GetSchemeAt(raw, i + 1)
  ELSE IF raw[i] = ":" THEN
         IF i = 1 THEN [err |-> TRUE, scheme |-> << >>, rest |-> << >>]
         ELSE [err |-> FALSE, scheme |-> SubSeq(raw, 1, i - 1), rest |-> From(raw, i + 1)]
  ELSE [err |-> FALSE, scheme |-> << >>, rest |-> raw]

\* rest is a lone trailing '?': ForceQuery
IsForceQuery(rest) == rest # << >> /\ rest[Len(rest)] = "?" /\ Cardinality({i \in 1..Len(rest) : rest[i] = "?"}) = 1

\* the authority and what follows it, of a rest that starts with "//"
SplitAuthority(scheme, query, force, c) ==
  [err |-> FALSE, Scheme |-> scheme, Opaque |-> << >>, Host |-> c.before,
   Path |-> IF c.found THEN <<"/">> \o c.after ELSE << >>, RawQuery |-> query, ForceQuery |-> force]

\* parse, once scheme and query are split off
ParsePath(scheme, rest, query, force) ==
  IF ~HasPrefix(rest, <<"/">>) /\ scheme # << >> THEN
       [NoURL EXCEPT !.err = FALSE, !.Scheme = scheme, !.Opaque = rest, !.RawQuery = query, !.ForceQuery = force]
  ELSE IF ~HasPrefix(rest, <<"/">>) /\ IndexOf(Cut(rest, "/").before, ":") # 0 THEN NoURL
  ELSE IF HasPrefix(rest, <<"/", "/">>) /\ (scheme # << >> \/ ~HasPrefix(rest, <<"/", "/", "/">>)) THEN
       SplitAuthority(scheme, query, force, Cut(From(rest, 3), "/"))
  ELSE [err |-> FALSE, Scheme |-> scheme, Opaque |-> << >>, Host |-> << >>, Path |-> rest, RawQuery |-> query, ForceQuery |-> force]

SplitQuery(scheme, rest, c) ==
  IF IsForceQuery(rest) THEN ParsePath(scheme, SubSeq(rest, 1, Len(rest) - 1), << >>, TRUE)
  ELSE ParsePath(scheme, c.before, c.after, FALSE)

AfterScheme(raw, g) ==
  IF g.err THEN NoURL
  ELSE IF raw = <<"*">> THEN [NoURL EXCEPT !.err = FALSE, !.Path = raw]
  ELSE SplitQuery(ToLower(g.scheme), g.rest, Cut(g.rest, "?"))

\* url.Parse(rawURL) for text without '#', '%', '@'
ParseURL(raw) == AfterScheme(raw, GetSchemeAt(raw, 1))

\* one element of the path: "." drops, ".." climbs, anything else is appended
\* (dst is the text written after the leading "/", first as in the code)
Step(elem, dst, first, slash) ==
  IF elem = <<".">> THEN [dst |-> dst, first |-> FALSE]
  ELSE IF elem = <<".", ".">> THEN [dst |-> IF slash = 0 THEN << >> ELSE SubSeq(dst, 1, slash - 1), first |-> slash = 0]
  ELSE [dst |-> (IF first THEN dst ELSE dst \o <<"/">>) \o elem, first |-> FALSE]

\* the loop of resolvePath over the "/"-separated elements of remaining
RECURSIVE RemoveDots(_, _, _)
Continue(c, out) ==
  IF c.found THEN RemoveDots(c.after, out.dst, out.first)
  ELSE IF c.before = <<".">> \/ c.before = <<".", ".">> THEN out.dst \o <<"/">>
  ELSE out.dst

Element(c, dst, first) == Continue(c, Step(c.before, dst, first, LastIndexOf(dst, "/")))

RemoveDots(remaining, dst, first) == Element(Cut(remaining, "/"), dst, first)

Rooted(p) == IF Len(p) > 1 /\ p[2] = "/" THEN From(p, 2) ELSE p

Normalized(full) == IF full = << >> THEN << >> ELSE Rooted(<<"/">> \o RemoveDots(full, << >>, TRUE))

\* resolvePath(base, ref)
ResolvePath(base, ref) ==
  Normalized(IF ref = << >> THEN base ELSE IF ref[1] # "/" THEN SubSeq(base, 1, LastIndexOf(base, "/")) \o ref ELSE ref)

\* URL.ResolveReference
ResolveReference(u, ref) ==
  IF ref.Scheme # << >> \/ ref.Host # << >> THEN
       [ref EXCEPT !.Scheme = IF ref.Scheme = << >> THEN u.Scheme ELSE ref.Scheme, !.Path = ResolvePath(ref.Path, << >>)]
  ELSE IF ref.Opaque # << >> THEN
       [ref EXCEPT !.Scheme = u.Scheme, !.Host = << >>, !.Path = << >>]
  ELSE IF ref.Path = << >> /\ u.Opaque # << >> THEN
       [ref EXCEPT !.Scheme = u.Scheme, !.Opaque = u.Opaque, !.Host = << >>, !.Path = << >>,
                   !.RawQuery = IF ~ref.ForceQuery /\ ref.RawQuery = << >> THEN u.RawQuery ELSE ref.RawQuery]
  ELSE [ref EXCEPT !.Scheme = u.Scheme, !.Host = u.Host, !.Path = ResolvePath(u.Path, ref.Path),
                   !.RawQuery = IF ref.Path = << >> /\ ~ref.ForceQuery /\ ref.RawQuery = << >> THEN u.RawQuery ELSE ref.RawQuery]

\* URL.String
URLString(u) ==
  (IF u.Scheme # << >> THEN u.Scheme \o <<":">> ELSE << >>)
  \o (IF u.Opaque # << >> THEN u.Opaque
      ELSE (IF (u.Scheme # << >> \/ u.Host # << >>) /\ (u.Host # << >> \/ u.Path # << >>) THEN <<"/", "/">> ELSE << >>)
           \o u.Host
           \o (IF u.Path # << >> /\ u.Path[1] # "/" /\ u.Host # << >> THEN <<"/">> ELSE << >>)
           \o (IF u.Scheme = << >> /\ u.Host = << >> /\ IndexOf(Cut(u.Path, "/").before, ":") # 0 THEN <<".", "/">> ELSE << >>)
           \o u.Path)
  \o (IF u.ForceQuery \/ u.RawQuery # << >> THEN <<"?">> \o u.RawQuery ELSE << >>)

Resolved(base, ref) == IF ref.err THEN NoURL ELSE ResolveReference(base, ref)

\* URL.Parse(ref): url.Parse, then ResolveReference against the receiver
BaseParse(base, ref) == Resolved(base, ParseURL(ref))

(***************************************************************************)
(* The rewriters' regular expressions.  Each matcher answers whether the   *)
(* pattern matches starting at position i and, if so, where the match ends *)
(* (end is one past it) and what its groups are.  [^"']+ and \s* are       *)
(* greedy and what follows them cannot start inside them, so each match is *)
(* determined by a left-to-right scan.                                     *)
(***************************************************************************)

Quotes == {"\"", "'"}

\* \s of Go's regexp
Spaces == {" ", "\t", "\n", "\f", "\r"}

NoMatch == [ok |-> FALSE, end |-> 0, open |-> << >>, val |-> << >>, close |-> << >>]

\* the first position from i on that holds a character of stop, or Len(t) + 1
RunEnd(t, i, stop) == CHOOSE j \in i..(Len(t) + 1) : (j = Len(t) + 1 \/ t[j] \in stop) /\ \A k \in i..(j - 1) : t[k] \notin stop

\* the first position from i on that holds no space, or Len(t) + 1
SkipSpaces(t, i) == CHOOSE j \in i..(Len(t) + 1) : (j = Len(t) + 1 \/ t[j] \notin Spaces) /\ \A k \in i..(j - 1) : t[k] \in Spaces

\* a value from position q + 1 to e - 1 between the quotes at q and e
Quoted(t, q, body, e) ==
  IF q <= Len(t) /\ t[q] \in Quotes /\ e > body /\ e <= Len(t)
  THEN [ok |-> TRUE, end |-> e + 1, open |-> <<t[q]>>, val |-> SubSeq(t, q + 1, e - 1), close |-> <<t[e]>>]
  ELSE NoMatch

\* (["'])(PREFIX[^"']+)(["']) with the opening quote at position q; the
\* characters after PREFIX begin at position body and there is at least one
QuotedAt(t, q, body) == IF body > Len(t) THEN NoMatch ELSE Quoted(t, q, body, RunEnd(t, body, Quotes))

\* \.{1,2}\/ at position i: the number of characters it takes, or 0
DotSlash(t, i) ==
  IF LitAt(t, i, <<".", ".", "/">>) THEN 3 ELSE IF LitAt(t, i, <<".", "/">>) THEN 2 ELSE 0

\* https?:// at position i: the number of characters it takes, or 0
HTTPScheme(t, i) == IF LitAt(t, i, <<"h","t","t","p","s",":","/","/">>) THEN 8 ELSE IF LitAt(t, i, <<"h","t","t","p",":","/","/">>) THEN 7 ELSE 0

\* absRegex: (["'])(https?://[^"']+)(["'])
MatchAbs(t, i) == IF HTTPScheme(t, i + 1) = 0 THEN NoMatch ELSE QuotedAt(t, i, i + 1 + HTTPScheme(t, i + 1))

\* (["'])(\.{1,2}\/[^"']+)(["']) with the opening quote at position q
RelativeAt(t, q) == IF DotSlash(t, q + 1) = 0 THEN NoMatch ELSE QuotedAt(t, q, q + 1 + DotSlash(t, q + 1))

\* relImportRegex: import\(\s*(["'])(\.{1,2}\/[^"']+)(["'])
MatchRelImport(t, i) == IF LitAt(t, i, <<"i","m","p","o","r","t","(">>) THEN RelativeAt(t, SkipSpaces(t, i + 7)) ELSE NoMatch

\* staticImportRegex: from\s*(["'])(\.{1,2}\/[^"']+)(["'])
MatchStaticImport(t, i) == IF LitAt(t, i, <<"f","r","o","m">>) THEN RelativeAt(t, SkipSpaces(t, i + 4)) ELSE NoMatch

\* ... (["'])\s*\) with the closing quote at e and the parenthesis at p
URLFuncClosed(t, q, e, p) ==
  IF LitAt(t, p, <<")">>) THEN [ok |-> TRUE, end |-> p + 1, open |-> <<t[q]>>, val |-> SubSeq(t, q + 1, e - 1), close |-> <<t[e]>>] ELSE NoMatch

URLFuncValue(t, q, e) == IF e <= Len(t) THEN URLFuncClosed(t, q, e, SkipSpaces(t, e + 1)) ELSE NoMatch

URLFuncQuoted(t, q) ==
  IF q <= Len(t) /\ t[q] \in Quotes /\ LitAt(t, q + 1, <<"/">>) THEN URLFuncValue(t, q, RunEnd(t, q + 2, Quotes)) ELSE NoMatch

\* urlFuncRegex: URL\(\s*(["'])(\/[^"']*)(["'])\s*\)
MatchURLFunc(t, i) == IF LitAt(t, i, <<"U","R","L","(">>) THEN URLFuncQuoted(t, SkipSpaces(t, i + 4)) ELSE NoMatch

\* ... \s*\) with the parenthesis at p
CSSURLClosed(t, open, s, e, close, p) ==
  IF LitAt(t, p, <<")">>) THEN [ok |-> TRUE, end |-> p + 1, open |-> open, val |-> SubSeq(t, s, e - 1), close |-> close] ELSE NoMatch

CSSURLQuoteClosed(t, open, s, e, close) == CSSURLClosed(t, open, s, e, close, SkipSpaces(t, e + Len(close)))

\* ([^"')]+)(["']?) with the value from s to e - 1
CSSURLValue(t, open, s, e) ==
  IF e > s THEN CSSURLQuoteClosed(t, open, s, e, IF e <= Len(t) /\ t[e] \in Quotes THEN <<t[e]>> ELSE << >>) ELSE NoMatch

CSSURLOpened(t, open, s) == IF s > Len(t) THEN NoMatch ELSE CSSURLValue(t, open, s, RunEnd(t, s, Quotes \cup {")"}))

\* (["']?) at position k
CSSURLQuoted(t, k) == IF k <= Len(t) /\ t[k] \in Quotes THEN CSSURLOpened(t, <<t[k]>>, k + 1) ELSE CSSURLOpened(t, << >>, k)

\* \s* takes every space unless the match fails that way; it then leaves
\* the last space to the value, which no quote can precede
CSSURLSpaced(t, i, k, m) == IF m.ok \/ k = i + 4 THEN m ELSE CSSURLOpened(t, << >>, k - 1)

CSSURLAfterSpaces(t, i, k) == CSSURLSpaced(t, i, k, CSSURLQuoted(t, k))

\* urlRegex: url\(\s*(["']?)([^"')]+)(["']?)\s*\)
MatchCSSURL(t, i) == IF LitAt(t, i, <<"u","r","l","(">>) THEN CSSURLAfterSpaces(t, i, SkipSpaces(t, i + 4)) ELSE NoMatch

\* \s+(["'])([^"']+)(["']) with the opening quote at q
CSSImportQuoted(t, i, q) == IF q > i + 7 THEN QuotedAt(t, q, q + 1) ELSE NoMatch

\* importRegex: @import\s+(["'])([^"']+)(["'])
MatchCSSImport(t, i) == IF LitAt(t, i, <<"@","i","m","p","o","r","t">>) THEN CSSImportQuoted(t, i, SkipSpaces(t, i + 7)) ELSE NoMatch

MatchAt(pass, t, i) ==
  CASE pass = "abs" -> MatchAbs(t, i)
    [] pass = "relImport" -> MatchRelImport(t, i)
    [] pass = "staticImport" -> MatchStaticImport(t, i)
    [] pass = "urlFunc" -> MatchURLFunc(t, i)
    [] pass = "cssURL" -> MatchCSSURL(t, i)
    [] pass = "cssImport" -> MatchCSSImport(t, i)

(***************************************************************************)
(* What the rewriters emit                                                 *)
(***************************************************************************)

\* a rewriter that encodes with the standard alphabet
StdEncode(s) == EncodeToString(StdAlphabet, s)

\* base64.URLEncoding.EncodeToString([]byte(resolved.String()))
RewriterEncode(s) == EncodeToString(URLAlphabet, s)

\* origin + "/" + encoded + "?browse=1"
ProxiedURL(origin, target) == origin \o <<"/">> \o RewriterEncode(target) \o <<"?","b","r","o","w","s","e","=","1">>

\* The text each pass puts in front of the URL it writes, and after it.
PassHead(pass, m) ==
  CASE pass = "abs" -> m.open
    [] pass = "relImport" -> <<"i","m","p","o","r","t","(">> \o m.open
    [] pass = "staticImport" -> <<"f","r","o","m"," ">> \o m.open
    [] pass = "urlFunc" -> <<"U","R","L","(">> \o m.open
    [] pass = "cssURL" -> <<"u","r","l","(">> \o m.open
    [] pass = "cssImport" -> <<"@","i","m","p","o","r","t"," ">> \o m.open

PassTail(pass, m) ==
  CASE pass = "abs" -> m.close
    [] pass = "relImport" -> m.close
    [] pass = "staticImport" -> m.close
    [] pass = "urlFunc" -> m.close \o <<")">>
    [] pass = "cssURL" -> m.open \o <<")">>
    [] pass = "cssImport" -> m.open

\* One URL a rewriter wrote: the pass that wrote it, the reference it stood
\* for, the URL written and the absolute URL the reference resolved to.
Link(pass, ref, url, target) == [pass |-> pass, ref |-> ref, url |-> url, target |-> target]

\* resolved, err := base.Parse(ref); if err == nil, encode and route through the proxy
Routed(pass, ref, origin, resolved) ==
  IF resolved.err THEN [err |-> TRUE, link |-> Link(pass, ref, << >>, << >>)]
  ELSE [err |-> FALSE, link |-> Link(pass, ref, ProxiedURL(origin, URLString(resolved)), URLString(resolved))]

\* The URL a pass writes for the reference ref: URL("/path") gets the origin
\* put in front of its path; every other pass resolves and encodes.
PassURL(pass, ref, base, origin) ==
  IF pass = "urlFunc" THEN [err |-> FALSE, link |-> Link(pass, ref, origin \o ref, << >>)]
  ELSE Routed(pass, ref, origin, BaseParse(base, ref))

PassNumber(pass) ==
  CASE pass = "abs" -> 1 [] pass = "relImport" -> 2 [] pass = "staticImport" -> 3 [] pass = "urlFunc" -> 4
    [] pass = "cssURL" -> 1 [] pass = "cssImport" -> 2

\* Provenance of a character of the text: 0 for a character of the upstream
\* body, n for a character pass n wrote around a URL, URLMark + n for a
\* character of a URL pass n wrote.
URLMark == 10

Marked(n, head, url, tail) ==
  [j \in 1..Len(head) |-> n] \o [j \in 1..Len(url) |-> URLMark + n] \o [j \in 1..Len(tail) |-> n]

\* The text before the match and the callback's result go in front of what
\* the rest of the text became; a reference that does not parse leaves the
\* match as it is.  reused (reusedURL) tells whether the match took in a
\* character (a URL character) that an earlier pass had written.
Splice(pass, t, mk, i, at, m, u, head, tail, old, rest) ==
  IF u.err
  THEN [rest EXCEPT !.text = SubSeq(t, i, m.end - 1) \o rest.text, !.marks = SubSeq(mk, i, m.end - 1) \o rest.marks]
  ELSE [text |-> SubSeq(t, i, at - 1) \o head \o u.link.url \o tail \o rest.text,
        marks |-> SubSeq(mk, i, at - 1) \o Marked(PassNumber(pass), head, u.link.url, tail) \o rest.marks,
        links |-> {u.link} \cup rest.links,
        reused |-> rest.reused \/ old # {0},
        reusedURL |-> rest.reusedURL \/ \E k \in old : k > URLMark]

\* regexp.ReplaceAllStringFunc from position i on, with the pass's callback:
\* text is the result, links the URLs written, marks the provenance of each
\* character of text.
RECURSIVE ReplaceFrom(_, _, _, _, _, _)
ReplaceMatch(pass, t, mk, i, at, m, base, origin) ==
  Splice(pass, t, mk, i, at, m, PassURL(pass, m.val, base, origin), PassHead(pass, m), PassTail(pass, m),
         {mk[j] : j \in at..(m.end - 1)}, ReplaceFrom(pass, t, mk, m.end, base, origin))

ReplaceAt(pass, t, mk, i, at, base, origin) ==
  IF at = 0 THEN [text |-> From(t, i), marks |-> From(mk, i), links |-> {}, reused |-> FALSE, reusedURL |-> FALSE]
  ELSE ReplaceMatch(pass, t, mk, i, at, MatchAt(pass, t, at), base, origin)

ReplaceFrom(pass, t, mk, i, base, origin) ==
  ReplaceAt(pass, t, mk, i, FirstOf({j \in i..Len(t) : MatchAt(pass, t, j).ok}), base, origin)

\* what a pass did, added to what the passes before it did
After(st, p) == [p EXCEPT !.links = st.links \cup p.links, !.reused = st.reused \/ p.reused, !.reusedURL = st.reusedURL \/ p.reusedURL]

\* The passes of a rewriter, one after the other over the evolving text.
RECURSIVE RunPasses(_, _, _, _)
RunPasses(passes, st, base, origin) ==
  IF passes = << >> THEN st
  ELSE RunPasses(Tail(passes), After(st, ReplaceFrom(Head(passes), st.text, st.marks, 1, base, origin)), base, origin)

Unrewritten(text) == [text |-> text, marks |-> [j \in 1..Len(text) |-> 0], links |-> {}, reused |-> FALSE, reusedURL |-> FALSE]

\* the order of the substitutions in rewriteJS
JSPasses == <<"abs", "relImport", "staticImport", "urlFunc">>

\* the order of the substitutions in rewriteCSS
CSSPasses == <<"cssURL", "cssImport">>

\* rewriteJS: .text is the content it returns (its err is always nil), the
\* other fields tell what the passes did
rewriteJS(content, base, origin) == RunPasses(JSPasses, Unrewritten(content), base, origin)

\* rewriteCSS: .text is the content it returns (its err is always nil), the
\* other fields tell what the passes did
rewriteCSS(content, base, origin) == RunPasses(CSSPasses, Unrewritten(content), base, origin)

(***************************************************************************)
(* rewriteHTML.  html.Parse and html.Render belong to golang.org/x/net/html;*)
(* a document here is the sequence of the elements of its body, each with  *)
(* its attributes and at most one text child, and Parse is the inverse of  *)
(* Render over the documents HtmlDocs.                                     *)
(***************************************************************************)

\* rewriteAttrs
RewriteAttrs == {<<"h","r","e","f">>, <<"s","r","c">>, <<"a","c","t","i","o","n">>, <<"f","o","r","m","a","c","t","i","o","n">>}

\* elements html.Render closes in their start tag
VoidElements == {<<"i","m","g">>, <<"b","r">>, <<"i","n","p","u","t">>, <<"l","i","n","k">>, <<"m","e","t","a">>}

\* ss[lo] \o ... \o ss[hi]
RECURSIVE Flat(_, _, _)
Flat(ss, lo, hi) ==
  IF lo > hi THEN << >> ELSE IF lo = hi THEN ss[lo] ELSE Flat(ss, lo, (lo + hi) \div 2) \o Flat(ss, (lo + hi) \div 2 + 1, hi)

Flatten(ss) == Flat(ss, 1, Len(ss))

EscapeChar(c) ==
  CASE c = "&" -> <<"&","a","m","p",";">> [] c = "'" -> <<"&","#","3","9",";">> [] c = "<" -> <<"&","l","t",";">> [] c = ">" -> <<"&","g","t",";">> [] c = "\"" -> <<"&","#","3","4",";">>
    [] OTHER -> <<c>>

\* html.EscapeString
EscapeString(s) == Flatten([i \in 1..Len(s) |-> EscapeChar(s[i])])

RenderAttr(a) == <<" ">> \o a.Key \o <<"=","\"">> \o EscapeString(a.Val) \o <<"\"">>

\* a script's text is written as it is, any other text escaped
RenderText(n) == IF ~n.HasText THEN << >> ELSE IF n.Data = <<"s","c","r","i","p","t">> THEN n.Text ELSE EscapeString(n.Text)

RenderNode(n) ==
  <<"<">> \o n.Data \o Flatten([i \in 1..Len(n.Attr) |-> RenderAttr(n.Attr[i])])
  \o (IF n.Data \in VoidElements THEN <<"/",">">> ELSE <<">">> \o RenderText(n) \o <<"<","/">> \o n.Data \o <<">">>)

\* html.Render
Render(doc) == <<"<","h","t","m","l",">","<","h","e","a","d",">","<","/","h","e","a","d",">","<","b","o","d","y",">">> \o Flatten([i \in 1..Len(doc) |-> RenderNode(doc[i])]) \o <<"<","/","b","o","d","y",">","<","/","h","t","m","l",">">>

A(k, v) == [Key |-> k, Val |-> v]

Elem(data, attrs) == [Data |-> data, Attr |-> attrs, HasText |-> FALSE, Text |-> << >>]

ElemText(data, attrs, text) == [Data |-> data, Attr |-> attrs, HasText |-> TRUE, Text |-> text]

\* the documents upstream serves
HtmlDocs ==
  { << ElemText(<<"a">>, <<A(<<"h","r","e","f">>, <<"/","a","b","?","c">>)>>, <<"g","o">>),
       Elem(<<"i","m","g">>, <<A(<<"a","l","t">>, <<"x",".","p","n","g">>), A(<<"s","r","c">>, <<"d","a","t","a",":","i","m","a","g","e","/","p","n","g",";","b","a","s","e","6","4",",","A","A","=","=">>)>>),
       ElemText(<<"s","c","r","i","p","t">>, << >>, <<"n","e","w"," ","U","R","L","(","\"","/","a","p","i","\"",")",";","i","m","p","o","r","t","(","\"",".","/","m",".","j","s","\"",")">>) >>,
    << ElemText(<<"a">>, <<A(<<"h","r","e","f">>, <<"m","a","i","l","t","o",":","x">>)>>, <<"a","&","b">>),
       Elem(<<"f","o","r","m">>, <<A(<<"a","c","t","i","o","n">>, <<".",".","/","c">>)>>),
       Elem(<<"b","u","t","t","o","n">>, <<A(<<"f","o","r","m","a","c","t","i","o","n">>, <<"1","a",":","b">>)>>),
       ElemText(<<"s","c","r","i","p","t">>, <<A(<<"s","r","c">>, <<".","/","m",".","j","s">>)>>, <<"f","e","t","c","h","(","\"","h","t","t","p","s",":","/","/","c",".","d","/","e","\"",")">>) >> }

\* html.Parse
Parse(content) == CHOOSE d \in HtmlDocs : Render(d) = content

\* hasSrc is false: no attribute of the script is called src
IsInlineScript(n) == n.Data = <<"s","c","r","i","p","t">> /\ \A i \in 1..Len(n.Attr) : ToLower(n.Attr[i].Key) # <<"s","r","c">>

\* the text children of an inline script go through rewriteJS
ScriptTraced(n, base, origin) ==
  IF IsInlineScript(n) /\ n.HasText THEN rewriteJS(n.Text, base, origin) ELSE Unrewritten(n.Text)

\* n.Attr[i].Val = origin + "/" + encoded + "?browse=1" if the value resolves
AttrRouted(attr, u) ==
  IF u.err THEN [attr |-> attr, links |-> {}] ELSE [attr |-> [attr EXCEPT !.Val = u.link.url], links |-> {u.link}]

\* one round of the loop over n.Attr
RewriteAttrTraced(attr, base, origin) ==
  IF ToLower(attr.Key) \in RewriteAttrs /\ ~HasPrefix(attr.Val, <<"d","a","t","a",":">>)
  THEN AttrRouted(attr, Routed("attr", attr.Val, origin, BaseParse(base, attr.Val)))
  ELSE [attr |-> attr, links |-> {}]

AttrsCollected(rs) == [attrs |-> [i \in DOMAIN rs |-> rs[i].attr], links |-> UNION {rs[i].links : i \in DOMAIN rs}]

NodeTraced(n, js, at) ==
  [node |-> [n EXCEPT !.Text = js.text, !.Attr = at.attrs], links |-> js.links \cup at.links,
   reused |-> js.reused, reusedURL |-> js.reusedURL]

\* traverse(n) for an element node
TraverseTraced(n, base, origin) ==
  NodeTraced(n, ScriptTraced(n, base, origin), AttrsCollected([i \in 1..Len(n.Attr) |-> RewriteAttrTraced(n.Attr[i], base, origin)]))

DocTraced(rs) ==
  [text |-> Render([i \in DOMAIN rs |-> rs[i].node]), links |-> UNION {rs[i].links : i \in DOMAIN rs},
   reused |-> \E i \in DOMAIN rs : rs[i].reused, reusedURL |-> \E i \in DOMAIN rs : rs[i].reusedURL]

TraverseDoc(doc, base, origin) == DocTraced([i \in 1..Len(doc) |-> TraverseTraced(doc[i], base, origin)])

\* rewriteHTML: .text is the content it returns, the other fields tell what
\* the traversal did
rewriteHTML(htmlContent, base, origin) == TraverseDoc(Parse(htmlContent), base, origin)

(***************************************************************************)
(* The handler's surroundings: what a client may ask and what upstream may *)
(* answer.                                                                 *)
(***************************************************************************)

\* targets with a scheme and a host
AbsoluteURLs == {<<"h","t","t","p",":","/","/","h","/","a","/","b">>, <<"h","t","t","p",":","/","/","h","/","a","b","?","c">>}

\* what an address may decode to
TargetTexts == AbsoluteURLs \cup {<<"m","a","i","l","t","o",":","x">>, <<"/","p">>, <<"h","t","t","p",":","/","/">>}

\* r.URL.Path of the inbound request
ClientPaths ==
  {<<"/">>, <<"/","f","a","v","i","c","o","n",".","i","c","o">>} \cup {<<"/">> \o EncodeToString(alpha, t) : alpha \in {StdAlphabet, URLAlphabet}, t \in TargetTexts}

\* r.URL.RawQuery of the inbound request
ClientQueries == {<< >>, <<"b","r","o","w","s","e","=","1">>, <<"b","r","o","w","s","e","=">>, <<"x","=","1","&","b","r","o","w","s","e","=","o","n">>}

\* r.Host of the inbound request
ProxyHost == <<"p","x">>

\* http.Header: the values of each key, in the order they were added
EmptyHeader == << >>

Field(k, vs) == [Key |-> k, Values |-> vs]

\* r.Header of the inbound request
ClientHeaders ==
  { <<Field(<<"H","o","s","t">>, <<<<"p","x">>>>), Field(<<"A","c","c","e","p","t","-","E","n","c","o","d","i","n","g">>, <<<<"g","z","i","p">>, <<"b","r">>>>), Field(<<"U","s","e","r","-","A","g","e","n","t">>, <<<<"c","u","r","l">>>>)>>,
    <<Field(<<"A","c","c","e","p","t">>, <<<<"*","/","*">>>>)>> }

Keys(h) == {h[i].Key : i \in 1..Len(h)}

\* the values h holds for key
Values(h, key) == IF key \in Keys(h) THEN h[CHOOSE i \in 1..Len(h) : h[i].Key = key].Values ELSE << >>

\* Header.Get(key)
HeaderGet(h, key) == IF Values(h, key) = << >> THEN << >> ELSE Values(h, key)[1]

\* for key, values := range src { for _, value := range values { dst.Add(key, value) } }
\* into an empty dst, but for the keys the loop skips
AddAll(src, skipped) == Flatten([i \in 1..Len(src) |-> IF src[i].Key \in skipped THEN << >> ELSE <<src[i]>>])

\* Header.Del(key)
Del(h, key) == AddAll(h, {key})

\* Header.Set(key, value)
Set(h, key, value) == Del(h, key) \o <<Field(key, <<value>>)>>

\* the value of the first key=value pair of the query with this key
PairValue(pair, key, later) == IF pair.before = key THEN [found |-> TRUE, val |-> pair.after] ELSE later

RECURSIVE QueryFind(_, _)
QueryPairs(c, key) ==
  PairValue(Cut(c.before, "="), key, IF c.found THEN QueryFind(c.after, key) ELSE [found |-> FALSE, val |-> << >>])

QueryFind(rawQuery, key) == QueryPairs(Cut(rawQuery, "&"), key)

\* r.URL.Query().Get(key) for a query without escapes
QueryGet(rawQuery, key) == QueryFind(rawQuery, key).val

JSBodies ==
  { <<"f","e","t","c","h","(","\"","h","t","t","p","s",":","/","/","c",".","d","/","e","\"",")">>,
    <<"i","m","p","o","r","t"," ","x"," ","f","r","o","m"," ","'",".",".","/","n",".","j","s","'",";","n","e","w"," ","U","R","L","("," ","\"","/","a","p","i","\""," ",")">>,
    <<"i","m","p","o","r","t","(","'",".","/","x","\"","h","t","t","p","s",":","/","/","c","/","d","\"","'",")">> }

CSSBodies == {<<"a","{","b","a","c","k","g","r","o","u","n","d",":","u","r","l","(","'","/","x",".","p","n","g","'",")","}">>, <<"@","i","m","p","o","r","t"," ","\"","t",".","c","s","s","\"",";","b","{","s","r","c",":","u","r","l","(","i",".","p","n","g",")","}">>}

HTMLBodies == {Render(d) : d \in HtmlDocs}

\* strconv.Itoa
RECURSIVE Itoa(_)
Itoa(n) == IF n < 10 THEN <<<<"0","1","2","3","4","5","6","7","8","9">>[n + 1]>> ELSE Itoa(n \div 10) \o <<<<"0","1","2","3","4","5","6","7","8","9">>[(n % 10) + 1]>>

\* what http.DefaultClient.Do returns when it returns no error
Response(status, ctype, body) ==
  [StatusCode |-> status,
   Header |-> <<Field(<<"C","o","n","t","e","n","t","-","T","y","p","e">>, <<ctype>>), Field(<<"C","o","n","t","e","n","t","-","L","e","n","g","t","h">>, <<Itoa(Len(body))>>), Field(<<"S","e","t","-","C","o","o","k","i","e">>, <<<<"a","=","1">>, <<"b","=","2">>>>)>>,
   Body |-> body]

NoResponse == [StatusCode |-> 0, Header |-> EmptyHeader, Body |-> << >>]

UpstreamResponses ==
  {Response(200, <<"t","e","x","t","/","h","t","m","l",";"," ","c","h","a","r","s","e","t","=","u","t","f","-","8">>, b) : b \in HTMLBodies}
  \cup {Response(200, <<"T","e","x","t","/","H","T","M","L">>, b) : b \in HTMLBodies}
  \cup {Response(200, <<"t","e","x","t","/","c","s","s">>, b) : b \in CSSBodies}
  \cup {Response(200, <<"a","p","p","l","i","c","a","t","i","o","n","/","j","a","v","a","s","c","r","i","p","t">>, b) : b \in JSBodies}
  \cup {Response(200, <<"t","e","x","t","/","j","a","v","a","s","c","r","i","p","t",";"," ","c","h","a","r","s","e","t","=","u","t","f","-","8">>, <<"i","m","p","o","r","t","(","\"",".","/","m",".","j","s","\"",")">>),
        Response(404, <<"t","e","x","t","/","p","l","a","i","n">>, <<"n","o","t"," ","f","o","u","n","d">>),
        Response(200, <<"i","m","a","g","e","/","p","n","g">>, <<"%","P","N","G">>),
        [StatusCode |-> 204, Header |-> EmptyHeader, Body |-> << >>]}

\* err.Error() of a failed http.DefaultClient.Do
TransportErrors == {<<"c","o","n","n","e","c","t","i","o","n"," ","r","e","f","u","s","e","d">>}

(***************************************************************************)
(* proxyHandler.  variant tells which of the two handlers of the           *)
(* repository serves: "plain" is the one of main.go, which decodes with    *)
(* the standard alphabet and streams every body; "browse" is the one with  *)
(* the browse parameter, which decodes with the URL-safe alphabet.         *)
(***************************************************************************)

VARIABLES
  variant,        \* the handler that serves
  pc,             \* where the handler is in the inbound request
  r,              \* the inbound request
  followed,       \* the rewritten link the inbound request follows, if any
  hops,           \* how many links were followed to get here
  upstreamURL,    \* string(decodedBytes)
  parsedURL,      \* url.Parse(upstreamURL)
  browseEnabled,  \* r.URL.Query().Get("browse") != ""
  req,            \* the outbound request
  attempts,       \* the calls of http.DefaultClient.Do for the inbound request
  resp,           \* what upstream answered
  doErr,          \* the error of http.DefaultClient.Do
  bodyBytes,      \* what io.ReadAll returned
  w,              \* what was written to the client: headers, status, body
  outcome,        \* how the handler returned
  rewriter,       \* the rewriter the handler called
  links,          \* the URLs the rewriter wrote into the body
  reuse           \* whether a pass matched text (a URL) an earlier pass wrote

vars ==
  <<variant, pc, r, followed, hops, upstreamURL, parsedURL, browseEnabled, req, attempts, resp, doErr, bodyBytes, w,
    outcome, rewriter, links, reuse>>

\* how many rewritten links a client follows one after the other
MaxHops == 1

StatusBadRequest == 400

StatusInternalServerError == 500

NoRequest == [Path |-> << >>, RawQuery |-> << >>, Host |-> << >>, Header |-> EmptyHeader, TLS |-> FALSE]

NoOutbound == [URL |-> << >>, Header |-> EmptyHeader]

NoWriter == [header |-> EmptyHeader, status |-> 0, body |-> << >>]

NoLink == Link("none", << >>, << >>, << >>)

\* http.Error(w, error, code)
HttpError(wr, error, code) ==
  [header |-> Set(Set(Del(wr.header, <<"C","o","n","t","e","n","t","-","L","e","n","g","t","h">>), <<"C","o","n","t","e","n","t","-","T","y","p","e">>, <<"t","e","x","t","/","p","l","a","i","n",";"," ","c","h","a","r","s","e","t","=","u","t","f","-","8">>), <<"X","-","C","o","n","t","e","n","t","-","T","y","p","e","-","O","p","t","i","o","n","s">>, <<"n","o","s","n","i","f","f">>),
   status |-> code, body |-> wr.body \o error \o <<"\n">>]

\* w.WriteHeader(statusCode)
WriteHeader(wr, statusCode) == [wr EXCEPT !.status = statusCode]

\* w.Write(p)
Write(wr, p) == [wr EXCEPT !.body = wr.body \o p]

\* the alphabet of the handler's base64 decoder
HandlerAlphabet(v) == IF v = "plain" THEN StdAlphabet ELSE URLAlphabet

\* a validation that forgets the host
SchemeOnlyTarget(u) == u.err \/ u.Scheme = << >>

\* err != nil || parsedURL.Scheme == "" || parsedURL.Host == ""
InvalidTarget(u) == u.err \/ u.Scheme = << >> \/ u.Host = << >>

\* browseEnabled; the handler of main.go has no such flag
BrowseEnabled(v, rawQuery) == v = "browse" /\ QueryGet(rawQuery, <<"b","r","o","w","s","e">>) # << >>

\* a copy loop that has the Host case only
SkippedHostOnly(header, be) == {k \in Keys(header) : ToLower(k) = <<"h","o","s","t">>}

\* the keys of the inbound header the copy loop skips
SkippedRequestHeaders(header, be) ==
  {k \in Keys(header) : ToLower(k) = <<"h","o","s","t">> \/ (be /\ ToLower(k) = <<"a","c","c","e","p","t","-","e","n","c","o","d","i","n","g">>)}

\* origin
Origin(q) == (IF q.TLS THEN <<"h","t","t","p","s",":","/","/">> ELSE <<"h","t","t","p",":","/","/">>) \o q.Host

\* a choice of the branch that does not look at browseEnabled
StrategyByTypeAlone(be, contentType) ==
  IF HasPrefix(contentType, <<"t","e","x","t","/","h","t","m","l">>) THEN "html"
  ELSE IF HasPrefix(contentType, <<"t","e","x","t","/","c","s","s">>) THEN "css"
  ELSE IF HasPrefix(contentType, <<"a","p","p","l","i","c","a","t","i","o","n","/","j","a","v","a","s","c","r","i","p","t">>) \/ HasPrefix(contentType, <<"t","e","x","t","/","j","a","v","a","s","c","r","i","p","t">>) THEN "js"
  ELSE "passthrough"

\* the branch of the handler that answers
Strategy(be, contentType) ==
  IF be /\ HasPrefix(contentType, <<"t","e","x","t","/","h","t","m","l">>) THEN "html"
  ELSE IF be /\ HasPrefix(contentType, <<"t","e","x","t","/","c","s","s">>) THEN "css"
  ELSE IF be /\ (HasPrefix(contentType, <<"a","p","p","l","i","c","a","t","i","o","n","/","j","a","v","a","s","c","r","i","p","t">>) \/ HasPrefix(contentType, <<"t","e","x","t","/","j","a","v","a","s","c","r","i","p","t">>)) THEN "js"
  ELSE "passthrough"

\* a copyHeaders that skips nothing
SkippedNone(header, be) == {}

\* the keys of the upstream header copyHeaders skips
SkippedResponseHeaders(header, be) == {k \in Keys(header) : be /\ ToLower(k) = <<"c","o","n","t","e","n","t","-","l","e","n","g","t","h">>}

\* copyHeaders(), which finds the header of w empty
copyHeaders(wr, header, be) == [wr EXCEPT !.header = wr.header \o AddAll(header, SkippedResponseHeaders(header, be))]

\* the message of a failed io.ReadAll
ReadErrorMessage(strategy) ==
  CASE strategy = "html" -> <<"E","r","r","o","r"," ","r","e","a","d","i","n","g"," ","u","p","s","t","r","e","a","m"," ","H","T","M","L">>
    [] strategy = "css" -> <<"E","r","r","o","r"," ","r","e","a","d","i","n","g"," ","u","p","s","t","r","e","a","m"," ","C","S","S">>
    [] strategy = "js" -> <<"E","r","r","o","r"," ","r","e","a","d","i","n","g"," ","u","p","s","t","r","e","a","m"," ","J","a","v","a","S","c","r","i","p","t">>

\* the rewriter of a strategy
Rewritten(strategy, content, base, origin) ==
  CASE strategy = "html" -> rewriteHTML(content, base, origin)
    [] strategy = "css" -> rewriteCSS(content, base, origin)
    [] strategy = "js" -> rewriteJS(content, base, origin)

\* how many bytes io.Copy may have written when it returns
CopiedLengths(body) == {0, Len(body) \div 2, Len(body)}

\* err.Error() of html.Parse or html.Render
RewriteErrors == {<<"u","n","e","x","p","e","c","t","e","d"," ","E","O","F">>}

Init ==
  /\ variant \in {"plain", "browse"}
  /\ pc = "idle"
  /\ r = NoRequest
  /\ followed = NoLink
  /\ hops = 0
  /\ upstreamURL = << >>
  /\ parsedURL = NoURL
  /\ browseEnabled = FALSE
  /\ req = NoOutbound
  /\ attempts = 0
  /\ resp = NoResponse
  /\ doErr = << >>
  /\ bodyBytes = << >>
  /\ w = NoWriter
  /\ outcome = "none"
  /\ rewriter = "none"
  /\ links = {}
  /\ reuse = [text |-> FALSE, url |-> FALSE]

\* The server calls proxyHandler(w, r) with a fresh w for the request q.
Start(q, link, n) ==
  /\ r' = q
  /\ followed' = link
  /\ hops' = n
  /\ pc' = "resolve"
  /\ upstreamURL' = << >>
  /\ parsedURL' = NoURL
  /\ browseEnabled' = FALSE
  /\ req' = NoOutbound
  /\ attempts' = 0
  /\ resp' = NoResponse
  /\ doErr' = << >>
  /\ bodyBytes' = << >>
  /\ w' = NoWriter
  /\ outcome' = "none"
  /\ rewriter' = "none"
  /\ links' = {}
  /\ reuse' = [text |-> FALSE, url |-> FALSE]
  /\ UNCHANGED variant

\* A client sends a request of its own making.
Receive ==
  /\ pc = "idle"
  /\ \E p \in ClientPaths, q \in ClientQueries, h \in ClientHeaders, tls \in BOOLEAN :
       Start([Path |-> p, RawQuery |-> q, Host |-> ProxyHost, Header |-> h, TLS |-> tls], NoLink, 0)

\* The client requests the URL u it found in the rewritten body.
Navigate(l, u) ==
  Start([Path |-> u.Path, RawQuery |-> u.RawQuery, Host |-> u.Host, Header |-> r.Header, TLS |-> u.Scheme = <<"h","t","t","p","s">>], l, hops + 1)

\* A client follows one of the URLs the rewriter wrote into the body it got.
FollowLink ==
  /\ pc = "done"
  /\ hops < MaxHops
  /\ \E l \in links : Navigate(l, ParseURL(l.url))

\* http.Error(w, message, code); return
Fail(how, message, code) ==
  /\ w' = HttpError(w, message, code)
  /\ outcome' = how
  /\ pc' = "done"
  /\ UNCHANGED <<variant, r, followed, hops, parsedURL, browseEnabled, req, resp, bodyBytes, links, reuse>>

\* the resolver refuses the request, with upstreamURL set to u if it got that far
Reject(how, message, u) ==
  Fail(how, message, StatusBadRequest) /\ upstreamURL' = u /\ UNCHANGED <<attempts, doErr, rewriter>>

\* browseEnabled is set, the outbound request made and the headers copied
Forward(u, parsed, be) ==
  /\ upstreamURL' = u
  /\ parsedURL' = parsed
  /\ browseEnabled' = be
  /\ req' = [URL |-> u, Header |-> AddAll(r.Header, SkippedRequestHeaders(r.Header, be))]
  /\ pc' = "send"
  /\ UNCHANGED <<variant, r, followed, hops, attempts, resp, doErr, bodyBytes, w, outcome, rewriter, links, reuse>>

ResolveParsed(u, parsed) ==
  IF InvalidTarget(parsed) THEN Reject("invalid target", <<"I","n","v","a","l","i","d"," ","u","p","s","t","r","e","a","m"," ","U","R","L">>, u)
  ELSE Forward(u, parsed, BrowseEnabled(variant, r.RawQuery))

ResolveDecoded(decoded) ==
  IF ~decoded.ok THEN Reject("bad encoding", <<"I","n","v","a","l","i","d"," ","b","a","s","e","6","4"," ","e","n","c","o","d","i","n","g",":"," ","i","l","l","e","g","a","l"," ","b","a","s","e","6","4"," ","d","a","t","a">>, << >>)
  ELSE ResolveParsed(decoded.val, ParseURL(decoded.val))

ResolveEncoded(encodedURL) ==
  IF encodedURL = << >> THEN Reject("missing target", <<"M","i","s","s","i","n","g"," ","e","n","c","o","d","e","d"," ","U","R","L">>, << >>)
  ELSE ResolveDecoded(DecodeString(HandlerAlphabet(variant), encodedURL))

\* From the entry of the handler to the call of http.DefaultClient.Do.
Resolve == pc = "resolve" /\ ResolveEncoded(TrimPrefix(r.Path, <<"/">>))

\* a handler that calls http.DefaultClient.Do again when it fails
DoWithRetry ==
  /\ pc = "send"
  /\ attempts' = attempts + 1
  /\ \/ \E e \in TransportErrors :
          /\ doErr' = e
          /\ UNCHANGED <<variant, pc, r, followed, hops, upstreamURL, parsedURL, browseEnabled, req, resp, bodyBytes, w,
                         outcome, rewriter, links, reuse>>
     \/ \E answer \in UpstreamResponses :
          /\ resp' = answer
          /\ pc' = "respond"
          /\ UNCHANGED <<variant, r, followed, hops, upstreamURL, parsedURL, browseEnabled, req, doErr, bodyBytes, w,
                         outcome, rewriter, links, reuse>>

\* resp, err := http.DefaultClient.Do(req)
Do ==
  /\ pc = "send"
  /\ attempts' = attempts + 1
  /\ \/ \E e \in TransportErrors :
          /\ doErr' = e
          /\ Fail("upstream unreachable", <<"U","p","s","t","r","e","a","m"," ","r","e","q","u","e","s","t"," ","f","a","i","l","e","d",":"," ">> \o e, StatusInternalServerError)
          /\ UNCHANGED <<upstreamURL, rewriter>>
     \/ \E answer \in UpstreamResponses :
          /\ resp' = answer
          /\ pc' = "respond"
          /\ UNCHANGED <<variant, r, followed, hops, upstreamURL, parsedURL, browseEnabled, req, doErr, bodyBytes, w,
                         outcome, rewriter, links, reuse>>

\* the branch the handler takes for the upstream's answer; the handler of
\* main.go has the last one only
Chosen == IF variant = "plain" THEN "passthrough" ELSE Strategy(browseEnabled, HeaderGet(resp.Header, <<"C","o","n","t","e","n","t","-","T","y","p","e">>))

\* a rewriting branch that copies the upstream headers before it reads the body
ReadForAfterHeaders(strategy) ==
  /\ strategy # "passthrough"
  /\ \/ /\ bodyBytes' = resp.Body
        /\ w' = copyHeaders(w, resp.Header, browseEnabled)
        /\ pc' = "rewrite"
        /\ UNCHANGED <<variant, r, followed, hops, upstreamURL, parsedURL, browseEnabled, req, attempts, resp, doErr,
                       outcome, rewriter, links, reuse>>
     \/ /\ w' = HttpError(copyHeaders(w, resp.Header, browseEnabled), ReadErrorMessage(strategy), StatusInternalServerError)
        /\ outcome' = "read failed"
        /\ pc' = "done"
        /\ UNCHANGED <<variant, r, followed, hops, upstreamURL, parsedURL, browseEnabled, req, attempts, resp, doErr,
                       bodyBytes, rewriter, links, reuse>>

ReadFor(strategy) ==
  /\ strategy # "passthrough"
  /\ \/ /\ bodyBytes' = resp.Body
        /\ pc' = "rewrite"
        /\ UNCHANGED <<variant, r, followed, hops, upstreamURL, parsedURL, browseEnabled, req, attempts, resp, doErr, w,
                       outcome, rewriter, links, reuse>>
     \/ /\ Fail("read failed", ReadErrorMessage(strategy), StatusInternalServerError)
        /\ UNCHANGED <<upstreamURL, attempts, doErr, rewriter>>

\* bodyBytes, err := io.ReadAll(resp.Body) in a rewriting branch
ReadAll == pc = "respond" /\ ReadFor(Chosen)

\* copyHeaders(); w.WriteHeader(resp.StatusCode); w.Write(rewritten)
Emit(out) ==
  /\ w' = Write(WriteHeader(copyHeaders(w, resp.Header, browseEnabled), resp.StatusCode), out.text)
  /\ links' = out.links
  /\ reuse' = [text |-> out.reused, url |-> out.reusedURL]
  /\ outcome' = "rewritten"
  /\ pc' = "done"
  /\ UNCHANGED <<variant, r, followed, hops, upstreamURL, parsedURL, browseEnabled, req, attempts, resp, doErr, bodyBytes>>

\* rewriteCSS and rewriteJS return no error; html.Parse and html.Render may
RewriteAs(strategy) ==
  /\ rewriter' = strategy
  /\ \/ Emit(Rewritten(strategy, bodyBytes, parsedURL, Origin(r)))
     \/ /\ strategy = "html"
        /\ \E e \in RewriteErrors : Fail("rewrite failed", <<"E","r","r","o","r"," ","r","e","w","r","i","t","i","n","g"," ","H","T","M","L",":"," ">> \o e, StatusInternalServerError)
        /\ UNCHANGED <<upstreamURL, attempts, doErr>>

\* rewritten, err := rewriteX(bodyBytes, parsedURL, origin) and what follows it
Rewrite == pc = "rewrite" /\ RewriteAs(Chosen)

\* copyHeaders(); w.WriteHeader(resp.StatusCode) of the last branch
PassThrough ==
  /\ pc = "respond"
  /\ Chosen = "passthrough"
  /\ w' = WriteHeader(copyHeaders(w, resp.Header, browseEnabled), resp.StatusCode)
  /\ pc' = "stream"
  /\ UNCHANGED <<variant, r, followed, hops, upstreamURL, parsedURL, browseEnabled, req, attempts, resp, doErr, bodyBytes,
                 outcome, rewriter, links, reuse>>

\* io.Copy(w, resp.Body): it returns when the body ends or a read or write fails
Stream ==
  /\ pc = "stream"
  /\ \E n \in CopiedLengths(resp.Body) :
       /\ w' = Write(w, SubSeq(resp.Body, 1, n))
       /\ outcome' = IF n = Len(resp.Body) THEN "streamed" ELSE "stream broke"
  /\ pc' = "done"
  /\ UNCHANGED <<variant, r, followed, hops, upstreamURL, parsedURL, browseEnabled, req, attempts, resp, doErr, bodyBytes,
                 rewriter, links, reuse>>

Next == Receive \/ FollowLink \/ Resolve \/ Do \/ ReadAll \/ Rewrite \/ PassThrough \/ Stream

Spec == Init /\ [][Next]_vars

(***************************************************************************)
(* The claims                                                              *)
(***************************************************************************)

\* the handler has decided on the target of the inbound request
TargetDecided == pc \notin {"idle", "resolve"}

ClientErrors == {"missing target", "bad encoding", "invalid target"}

ServerErrors == {"upstream unreachable", "read failed", "rewrite failed"}

\* Rewrite Mode as the inbound request asks for it: a browse parameter that
\* is not empty
BrowseAsked == QueryGet(r.RawQuery, <<"b","r","o","w","s","e">>) # << >>

\* Rewrite Mode is active: the handler that serves has the mode and the
\* request asks for it (the handler of main.go has no such mode)
RewriteMode == variant = "browse" /\ BrowseAsked

\* the response is upstream's, not an error of the handler
Answered == pc = "stream" \/ outcome \in {"streamed", "stream broke", "rewritten"}

\* C1: for every absolute URL u, the address the rewriters emit for u is
\* accepted by the decode step of each handler and decodes back to u.
C1_RoundTrip ==
  \A u \in AbsoluteURLs :
    (TargetDecided /\ r.Path = <<"/">> \o RewriterEncode(u)) => (outcome \notin ClientErrors /\ upstreamURL = u)

\* the path of the request is empty, does not decode, or decodes to text
\* that is no URL with a scheme and a host
Unroutable(encoded, decoded) ==
  \/ encoded = << >>
  \/ ~decoded.ok
  \/ ParseURL(decoded.val).err
  \/ ParseURL(decoded.val).Scheme = << >>
  \/ ParseURL(decoded.val).Host = << >>

UnroutableRequest == Unroutable(TrimPrefix(r.Path, <<"/">>), DecodeString(HandlerAlphabet(variant), TrimPrefix(r.Path, <<"/">>)))

\* C2: a request whose path is empty, is not decodable or decodes to text
\* that is no URL with a scheme and a host is answered 400, and no upstream
\* request is made or sent for it.
C2_Rejected ==
  (TargetDecided /\ UnroutableRequest) =>
    (pc = "done" /\ outcome \in ClientErrors /\ w.status = StatusBadRequest /\ req = NoOutbound /\ attempts = 0 /\ resp = NoResponse)

C2_Witness ==
  /\ pc = "done"
  /\ r.Path = <<"/">> \o EncodeToString(URLAlphabet, <<"h","t","t","p",":","/","/">>)
  /\ UnroutableRequest
  /\ w.status = StatusBadRequest
  /\ attempts = 0

\* the headers http.Error leaves in a response that had none
ErrorHeaderOnly ==
  /\ Keys(w.header) = {<<"C","o","n","t","e","n","t","-","T","y","p","e">>, <<"X","-","C","o","n","t","e","n","t","-","T","y","p","e","-","O","p","t","i","o","n","s">>}
  /\ Values(w.header, <<"C","o","n","t","e","n","t","-","T","y","p","e">>) = <<<<"t","e","x","t","/","p","l","a","i","n",";"," ","c","h","a","r","s","e","t","=","u","t","f","-","8">>>>
  /\ Values(w.header, <<"X","-","C","o","n","t","e","n","t","-","T","y","p","e","-","O","p","t","i","o","n","s">>) = <<<<"n","o","s","n","i","f","f">>>>

\* the bodies of the handler's own error responses
ErrorBodies ==
  CASE outcome = "upstream unreachable" -> {<<"U","p","s","t","r","e","a","m"," ","r","e","q","u","e","s","t"," ","f","a","i","l","e","d",":"," ">> \o doErr \o <<"\n">>}
    [] outcome = "read failed" ->
         {<<"E","r","r","o","r"," ","r","e","a","d","i","n","g"," ","u","p","s","t","r","e","a","m"," ","H","T","M","L">> \o <<"\n">>, <<"E","r","r","o","r"," ","r","e","a","d","i","n","g"," ","u","p","s","t","r","e","a","m"," ","C","S","S">> \o <<"\n">>,
          <<"E","r","r","o","r"," ","r","e","a","d","i","n","g"," ","u","p","s","t","r","e","a","m"," ","J","a","v","a","S","c","r","i","p","t">> \o <<"\n">>}
    [] outcome = "rewrite failed" -> {<<"E","r","r","o","r"," ","r","e","w","r","i","t","i","n","g"," ","H","T","M","L",":"," ">> \o e \o <<"\n">> : e \in RewriteErrors}
    [] OTHER -> {}

\* C3: when the handler answers with a server error of its own, nothing of
\* upstream's answer (header, status, body byte) was written before it; and
\* in a rewriting branch nothing is written to the client until the body is
\* read whole and rewritten.
C3_NoPartialWrite ==
  /\ outcome \in ServerErrors => (w.status = StatusInternalServerError /\ ErrorHeaderOnly /\ w.body \in ErrorBodies)
  /\ pc = "rewrite" => w = NoWriter
  /\ (rewriter # "none" /\ w # NoWriter) => (outcome = "rewrite failed" \/ (outcome = "rewritten" /\ bodyBytes = resp.Body))

C3_Witness ==
  /\ outcome = "read failed"
  /\ <<"S","e","t","-","C","o","o","k","i","e">> \in Keys(resp.Header)
  /\ resp.Body # << >>
  /\ w.status = StatusInternalServerError
  /\ ErrorHeaderOnly

\* C4: an inbound request causes at most one call of the client; if the call
\* fails the handler answers 500 with the error of the call at once, and
\* calls no second time.
C4_SingleAttempt ==
  /\ attempts <= 1
  /\ doErr # << >> =>
       /\ pc = "done"
       /\ attempts = 1
       /\ outcome = "upstream unreachable"
       /\ w = [header |-> <<Field(<<"C","o","n","t","e","n","t","-","T","y","p","e">>, <<<<"t","e","x","t","/","p","l","a","i","n",";"," ","c","h","a","r","s","e","t","=","u","t","f","-","8">>>>), Field(<<"X","-","C","o","n","t","e","n","t","-","T","y","p","e","-","O","p","t","i","o","n","s">>, <<<<"n","o","s","n","i","f","f">>>>)>>,
               status |-> StatusInternalServerError,
               body |-> <<"U","p","s","t","r","e","a","m"," ","r","e","q","u","e","s","t"," ","f","a","i","l","e","d",":"," ">> \o doErr \o <<"\n">>]
       /\ resp = NoResponse

C4_Witness == doErr = <<"c","o","n","n","e","c","t","i","o","n"," ","r","e","f","u","s","e","d">> /\ attempts = 1 /\ pc = "done" /\ w.status = StatusInternalServerError

\* C5: when the inbound query has no browse parameter or an empty one, no
\* rewriter is called whatever upstream's content type is, the status the
\* client gets is upstream's, and the body bytes it gets are upstream's,
\* unchanged: all of them once io.Copy has returned without error.
C5_PassThrough ==
  (TargetDecided /\ ~BrowseAsked) =>
    /\ rewriter = "none" /\ links = {} /\ bodyBytes = << >> /\ pc # "rewrite"
    /\ outcome \notin {"read failed", "rewrite failed", "rewritten"}
    /\ Answered => (w.status = resp.StatusCode /\ HasPrefix(resp.Body, w.body))
    /\ outcome = "streamed" => w.body = resp.Body

C5_Witness ==
  /\ variant = "browse"
  /\ r.RawQuery = <<"b","r","o","w","s","e","=">>
  /\ HeaderGet(resp.Header, <<"C","o","n","t","e","n","t","-","T","y","p","e">>) = <<"t","e","x","t","/","h","t","m","l",";"," ","c","h","a","r","s","e","t","=","u","t","f","-","8">>
  /\ outcome = "streamed"
  /\ w.body = resp.Body
  /\ w.status = resp.StatusCode

\* the strategy a prefix match without regard to letter case chooses
ByMediaType(contentType) ==
  IF HasPrefix(ToLower(contentType), <<"t","e","x","t","/","h","t","m","l">>) THEN "html"
  ELSE IF HasPrefix(ToLower(contentType), <<"t","e","x","t","/","c","s","s">>) THEN "css"
  ELSE IF HasPrefix(ToLower(contentType), <<"a","p","p","l","i","c","a","t","i","o","n","/","j","a","v","a","s","c","r","i","p","t">>) \/ HasPrefix(ToLower(contentType), <<"t","e","x","t","/","j","a","v","a","s","c","r","i","p","t">>) THEN "js"
  ELSE "passthrough"

\* C6: with Rewrite Mode on, the strategy is the one the prefix of upstream's
\* Content-Type chooses without regard to letter case: text/html the HTML
\* rewriter, text/css the CSS rewriter, application/javascript and
\* text/javascript the JS rewriter, anything else pass-through.
C6_CaseInsensitive ==
  (RewriteMode /\ resp # NoResponse) =>
    /\ outcome = "rewritten" => rewriter = ByMediaType(HeaderGet(resp.Header, <<"C","o","n","t","e","n","t","-","T","y","p","e">>))
    /\ (pc = "stream" \/ outcome \in {"streamed", "stream broke"}) => ByMediaType(HeaderGet(resp.Header, <<"C","o","n","t","e","n","t","-","T","y","p","e">>)) = "passthrough"

C8_KeptUnlessMutated ==
  (outcome \in {"streamed", "rewritten"} /\ w.body = resp.Body) =>
    Values(w.header, <<"C","o","n","t","e","n","t","-","L","e","n","g","t","h">>) = Values(resp.Header, <<"C","o","n","t","e","n","t","-","L","e","n","g","t","h">>)

\* C8: a successful response carries every value of every upstream header,
\* but for Content-Length, which it lacks exactly when Rewrite Mode is
\* active, whether the body is rewritten or not; it carries no other header.
C8_ResponseHeaders ==
  Answered =>
    /\ Keys(w.header) \subseteq Keys(resp.Header)
    /\ \A k \in Keys(resp.Header) :
         Values(w.header, k) = IF RewriteMode /\ ToLower(k) = <<"c","o","n","t","e","n","t","-","l","e","n","g","t","h">> THEN << >> ELSE Values(resp.Header, k)

C8_Witness ==
  /\ RewriteMode
  /\ outcome = "streamed"
  /\ HeaderGet(resp.Header, <<"C","o","n","t","e","n","t","-","T","y","p","e">>) = <<"i","m","a","g","e","/","p","n","g">>
  /\ w.body = resp.Body
  /\ <<"C","o","n","t","e","n","t","-","L","e","n","g","t","h">> \in Keys(resp.Header) \ Keys(w.header)
  /\ Values(w.header, <<"S","e","t","-","C","o","o","k","i","e">>) = <<<<"a","=","1">>, <<"b","=","2">>>>

\* the URL that routes the reference ref of a body fetched from base back
\* through the proxy at origin in browse mode
RoutedBack(origin, base, ref) ==
  origin \o <<"/">> \o EncodeToString(URLAlphabet, URLString(BaseParse(base, ref))) \o <<"?","b","r","o","w","s","e","=","1">>

\* the URL l is the reference it stands for, resolved, encoded and routed back
WellRouted(l) == l.url = RoutedBack(Origin(r), parsedURL, l.ref) /\ l.target = URLString(BaseParse(parsedURL, l.ref))

\* the request that follows a rewritten URL got past the Target Resolver
\* with the resolved reference as its target and Rewrite Mode active
FollowedThrough == outcome \notin ClientErrors /\ upstreamURL = followed.target /\ browseEnabled

\* C9 as the specification has it: every URL a rewriter writes, each JS pass
\* included, is <origin>/<address>?browse=1 with the address of the resolved
\* reference, and the request that follows it passes the Target Resolver,
\* targets the resolved reference and has Rewrite Mode active.
C9_EveryURLRoutesBack ==
  /\ \A l \in links : WellRouted(l)
  /\ (followed # NoLink /\ TargetDecided) => FollowedThrough

\* the text is a URL with a scheme and a host
Routable(text) == ~ParseURL(text).err /\ ParseURL(text).Scheme # << >> /\ ParseURL(text).Host # << >>

\* C9: every URL that the HTML attribute pass, the CSS passes and the first
\* three JS passes write is <origin>/<address>?browse=1 with the address of
\* the resolved reference; the request that follows it decodes the address
\* to the resolved reference, and when that has a scheme and a host it
\* passes the Target Resolver with Rewrite Mode active, else it is answered
\* 400.  The URL("/path") pass writes <origin><path>.
C9_RoutesBack ==
  /\ \A l \in links : IF l.pass = "urlFunc" THEN l.url = Origin(r) \o l.ref ELSE WellRouted(l)
  /\ (followed # NoLink /\ followed.pass # "urlFunc" /\ TargetDecided) =>
       /\ upstreamURL = followed.target
       /\ IF Routable(followed.target) THEN FollowedThrough ELSE outcome = "invalid target"

C9_Witness ==
  /\ followed # NoLink
  /\ followed.pass = "attr"
  /\ followed.target = <<"h","t","t","p",":","/","/","h","/","a","b","?","c">>
  /\ upstreamURL = followed.target
  /\ browseEnabled
  /\ outcome = "rewritten"
  /\ links # {}

\* C10: the passes of rewriteJS run in the order absolute literal, dynamic
\* import, static import, URL("/path"), and no match of a pass takes in text
\* that an earlier pass wrote.
C10_NoRematch ==
  /\ JSPasses = <<"abs", "relImport", "staticImport", "urlFunc">>
  /\ rewriter \in {"js", "html"} => ~reuse.text

====
